---- MODULE Spec2Model ----
(***************************************************************************)
(* bt_string_utils: the byte-budgeted chunk splitter (lib2.rs), the        *)
(* whole-word N-way splitter and the tag stripper (lib.rs).                *)
(*                                                                         *)
(* A Rust &str is modelled as the sequence of its Unicode scalar values;   *)
(* as_bytes() is its UTF-8 encoding, computed byte by byte, so that byte   *)
(* offsets, codepoint boundaries and multi-byte characters are real.       *)
(***************************************************************************)
EXTENDS Integers, Sequences, FiniteSets, TLC

VARIABLES
    pc,               \* position of the running function
    text,             \* the input &str, as a sequence of scalar values
    chunk_size_bytes, \* split_into_chunks: the byte budget
    offset,           \* split_into_chunks: start of the next chunk
    valid_end,        \* split_into_chunks: candidate end of the chunk
    chunks,           \* split_into_chunks: the Vec<String> built so far
    n,                \* split_upto_n_by_word: requested number of slices
    words,            \* split_upto_n_by_word: (start, end) of every word
    is_space,         \* split_upto_n_by_word: the whitespace map
    out,              \* split_upto_n_by_word: the slices, as byte ranges
    gi,               \* split_upto_n_by_word: loop variable i of step 3
    open_tag,         \* remove_tags: the open marker
    close_tag,        \* remove_tags: the close marker
    ti,               \* remove_tags: byte index i
    depth,            \* remove_tags: nesting depth inside a region
    tout,             \* remove_tags: the output String, as bytes
    region,           \* remove_tags: ghost, index of the open marker of the
                      \* region being removed (-1 outside a region)
    pass,             \* remove_tags: 1 in a first call, 2 in a call on the
                      \* output of the first
    first_out,        \* remove_tags: the output of the first call
    aux,              \* the other arguments of the single-pass helpers
    work,             \* their intermediate value
    res               \* their result

vars == <<pc, text, chunk_size_bytes, offset, valid_end, chunks,
          n, words, is_space, out, gi,
          open_tag, close_tag, ti, depth, tout, region, pass, first_out,
          aux, work, res>>

chunkVars == <<chunk_size_bytes, offset, valid_end, chunks>>
wordVars  == <<n, words, is_space, out, gi>>
tagVars   == <<open_tag, close_tag, ti, depth, tout, region, pass, first_out>>
fnVars    == <<aux, work, res>>

----------------------------------------------------------------------------
(* Bounds of the model *)

\* longest text of the chunk splitter, in characters
MaxLen == 3
\* largest byte budget tried (0 is tried too)
MaxBudget == 5
\* pushes a stalled chunk loop is followed for before the allocator gives up
MaxStall == 2

----------------------------------------------------------------------------
(* Characters and UTF-8 *)

Min(a, b) == IF a < b THEN a ELSE b

\* 'a', U+00E9, U+5B57, U+1F642: one character of each UTF-8 width
ChunkAlphabet == {97, 233, 23383, 128578}

\* char::len_utf8
LenUtf8(c) ==
    IF c < 128 THEN 1 ELSE IF c < 2048 THEN 2 ELSE IF c < 65536 THEN 3 ELSE 4

\* the UTF-8 encoding of one scalar value
EncodeChar(c) ==
    CASE c < 128   -> <<c>>
      [] c < 2048  -> <<192 + (c \div 64), 128 + (c % 64)>>
      [] c < 65536 -> <<224 + (c \div 4096), 128 + ((c \div 64) % 64),
                        128 + (c % 64)>>
      [] OTHER     -> <<240 + (c \div 262144), 128 + ((c \div 4096) % 64),
                        128 + ((c \div 64) % 64), 128 + (c % 64)>>

\* str::as_bytes
RECURSIVE AsBytes(_)
AsBytes(s) ==
    IF s = <<>> THEN <<>> ELSE EncodeChar(Head(s)) \o AsBytes(Tail(s))

\* bytes[a..b] with Rust's 0-based half-open range
Slice(bs, a, b) == SubSeq(bs, a + 1, b)

IsContinuation(b) == b >= 128 /\ b <= 191

\* width announced by a lead byte, 0 when the byte cannot start a character
LeadWidth(b) ==
    CASE b < 128              -> 1
      [] b >= 194 /\ b <= 223 -> 2
      [] b >= 224 /\ b <= 239 -> 3
      [] b >= 240 /\ b <= 244 -> 4
      [] OTHER                -> 0

\* the second byte of a 3- or 4-byte sequence excludes overlong forms,
\* surrogates and values above U+10FFFF
SecondByteOk(lead, b) ==
    CASE lead = 224 -> b >= 160 /\ b <= 191
      [] lead = 237 -> b >= 128 /\ b <= 159
      [] lead = 240 -> b >= 144 /\ b <= 191
      [] lead = 244 -> b >= 128 /\ b <= 143
      [] OTHER      -> IsContinuation(b)

\* does a whole well-formed character start at the head of bs
WholeCharAtHead(bs) ==
    LET w == LeadWidth(bs[1]) IN
    /\ w > 0
    /\ Len(bs) >= w
    /\ w >= 2 => SecondByteOk(bs[1], bs[2])
    /\ \A k \in 3..w : IsContinuation(bs[k])

\* std::str::from_utf8(bs).is_ok()
RECURSIVE FromUtf8IsOk(_)
FromUtf8IsOk(bs) ==
    IF bs = <<>> THEN TRUE
    ELSE /\ WholeCharAtHead(bs)
         /\ FromUtf8IsOk(SubSeq(bs, LeadWidth(bs[1]) + 1, Len(bs)))

\* number of bytes of the ill-formed sequence at the head of bs that one
\* U+FFFD replaces: the lead byte and the continuation bytes that follow it
RECURSIVE ContinuationRun(_, _)
ContinuationRun(bs, max) ==
    IF max = 0 \/ bs = <<>> \/ ~IsContinuation(bs[1]) THEN 0
    ELSE 1 + ContinuationRun(Tail(bs), max - 1)

BadPrefixLen(bs) ==
    LET w == LeadWidth(bs[1]) IN
    IF w <= 1 THEN 1 ELSE 1 + ContinuationRun(Tail(bs), w - 1)

\* String::from_utf8_lossy(bs).to_string(): well-formed characters are kept,
\* every ill-formed sequence becomes U+FFFD (EF BF BD)
RECURSIVE FromUtf8Lossy(_)
FromUtf8Lossy(bs) ==
    IF bs = <<>> THEN <<>>
    ELSE IF WholeCharAtHead(bs)
         THEN SubSeq(bs, 1, LeadWidth(bs[1]))
              \o FromUtf8Lossy(SubSeq(bs, LeadWidth(bs[1]) + 1, Len(bs)))
         ELSE <<239, 191, 189>>
              \o FromUtf8Lossy(SubSeq(bs, BadPrefixLen(bs) + 1, Len(bs)))

\* all texts of at most k characters over the alphabet A
TextsUpTo(A, k) == UNION {[1..m -> A] : m \in 0..k}

----------------------------------------------------------------------------
(* split_into_chunks (lib2.rs) *)

\* values of the variables a function does not use
IdleChunk == chunk_size_bytes = 0 /\ offset = 0 /\ valid_end = 0 /\ chunks = <<>>
IdleWord  == n = 0 /\ words = <<>> /\ is_space = <<>> /\ out = <<>> /\ gi = 0
IdleTag   == /\ open_tag = <<>> /\ close_tag = <<>> /\ ti = 0 /\ depth = 0
             /\ tout = <<>> /\ region = -1 /\ pass = 0 /\ first_out = <<>>
IdleFn    == aux = <<>> /\ work = <<>> /\ res = <<>>

InitChunks ==
    /\ pc = "while"
    /\ text \in TextsUpTo(ChunkAlphabet, MaxLen)
    /\ chunk_size_bytes \in 0..MaxBudget
    /\ offset = 0
    /\ valid_end = 0
    /\ chunks = <<>>
    /\ IdleWord /\ IdleTag /\ IdleFn

\* while offset < bytes.len(): end, valid_end = end; otherwise return chunks
ChunkLoopTest ==
    /\ pc = "while"
    /\ IF offset < Len(AsBytes(text))
       THEN /\ valid_end' = Min(offset + chunk_size_bytes, Len(AsBytes(text)))
            /\ pc' = "validate"
       ELSE /\ pc' = "done"
            /\ UNCHANGED valid_end
    /\ UNCHANGED <<text, chunk_size_bytes, offset, chunks>>
    /\ UNCHANGED wordVars /\ UNCHANGED tagVars /\ UNCHANGED fnVars

\* mutant: the end of the chunk is never stepped back
NeedsStepBack_never(bs, off, ve) == FALSE

\* the inner while: step back while bytes[offset..valid_end] is not UTF-8
NeedsStepBack(bs, off, ve) == ~FromUtf8IsOk(Slice(bs, off, ve))

ChunkStepBack ==
    /\ pc = "validate"
    /\ IF NeedsStepBack(AsBytes(text), offset, valid_end)
       THEN /\ valid_end' = valid_end - 1
            /\ pc' = "validate"
       ELSE /\ pc' = "push"
            /\ UNCHANGED valid_end
    /\ UNCHANGED <<text, chunk_size_bytes, offset, chunks>>
    /\ UNCHANGED wordVars /\ UNCHANGED tagVars /\ UNCHANGED fnVars

\* the chunk pushed for bytes[offset..valid_end]
ChunkOf(bs, off, ve) == FromUtf8Lossy(Slice(bs, off, ve))

\* chunks.push(chunk); offset = valid_end.  A Vec that can grow no more
\* aborts the process (the allocation fails): a loop that stalls ends so.
ChunkPush ==
    /\ pc = "push"
    /\ IF Len(chunks) >= MaxLen + MaxStall
       THEN /\ pc' = "abort"
            /\ UNCHANGED <<chunks, offset>>
       ELSE /\ chunks' = Append(chunks, ChunkOf(AsBytes(text), offset, valid_end))
            /\ offset' = valid_end
            /\ pc' = "while"
    /\ UNCHANGED <<text, chunk_size_bytes, valid_end>>
    /\ UNCHANGED wordVars /\ UNCHANGED tagVars /\ UNCHANGED fnVars

NextChunks == ChunkLoopTest \/ ChunkStepBack \/ ChunkPush

SpecChunks == InitChunks /\ [][NextChunks]_vars

----------------------------------------------------------------------------
(* Properties of split_into_chunks *)

RECURSIVE Flatten(_)
Flatten(ss) == IF ss = <<>> THEN <<>> ELSE Head(ss) \o Flatten(Tail(ss))

RECURSIVE ByteLen(_)
ByteLen(s) == IF s = <<>> THEN 0 ELSE LenUtf8(Head(s)) + ByteLen(Tail(s))

\* the byte indices of text that lie on a codepoint boundary
Boundaries(s) == {ByteLen(SubSeq(s, 1, k)) : k \in 0..Len(s)}

\* the largest codepoint boundary of s that is <= limit
LargestBoundary(s, limit) ==
    CHOOSE b \in Boundaries(s) :
        /\ b <= limit
        /\ \A c \in Boundaries(s) : c <= limit => c <= b

\* a byte sequence made of whole characters of the text's alphabet
WholeChars(bs) == \E s \in TextsUpTo(ChunkAlphabet, Len(bs)) : AsBytes(s) = bs

ChunkRunning == pc \in {"while", "validate", "push"}

\* C1: for every text and every positive budget the call returns, and the
\* chunks it returns concatenate to the bytes of the text.
C1_ReturnsRoundTrip ==
    (chunk_size_bytes > 0 /\ ~ChunkRunning) =>
        (pc = "done" /\ Flatten(chunks) = AsBytes(text))

\* C2: every iteration of the loop moves the offset forward to a later
\* codepoint boundary (the code has no path that rejects a budget), so the
\* loop reaches the end of the text.
C2_EveryIterationAdvances ==
    [][(pc = "push" /\ pc' # "push") =>
          (offset' > offset /\ offset' \in Boundaries(text))]_vars

\* C3: chunk i is bytes[off, ve) where off is the end of chunk i-1 and ve is
\* the largest codepoint boundary <= min(off + budget, len); so it has at most
\* budget bytes, is made of whole characters, and in single-byte text every
\* chunk but the last has exactly budget bytes.
C3_ChunkIsLargestValidRange ==
    \A i \in 1..Len(chunks) :
        LET bs  == AsBytes(text)
            off == Len(Flatten(SubSeq(chunks, 1, i - 1)))
            ve  == LargestBoundary(text, Min(off + chunk_size_bytes, Len(bs)))
        IN /\ off \in Boundaries(text)
           /\ chunks[i] = Slice(bs, off, ve)
           /\ Len(chunks[i]) <= chunk_size_bytes
           /\ WholeChars(chunks[i])
           /\ (Len(bs) = Len(text) /\ (i < Len(chunks) \/ pc = "push"))
                 => Len(chunks[i]) = chunk_size_bytes

\* a finished split of multi-byte text in which a chunk ended early because
\* the budget fell inside a character
C3_Witness ==
    /\ pc = "done"
    /\ Len(chunks) >= 3
    /\ \E i \in 1..(Len(chunks) - 1) :
          /\ chunks[i] # <<>>
          /\ Len(chunks[i]) < chunk_size_bytes
          /\ Len(chunks[i + 1]) > 1

\* C4: no chunk in the result is empty.
C4_NoEmptyChunk == \A i \in 1..Len(chunks) : chunks[i] # <<>>

----------------------------------------------------------------------------
(* split_upto_n_by_word (lib.rs) *)

\* longest text of the word splitter, in characters
MaxWordLen == 5
\* largest number of slices asked for
MaxN == 3

\* 'a', U+00E9, ' ', U+00A0 (2 bytes), U+3000 (3 bytes)
WordAlphabet == {97, 233, 32, 160, 12288}

\* "a a a a a": five words, for groups of unequal size
FiveWords == <<97, 32, 97, 32, 97, 32, 97, 32, 97>>

\* char::is_whitespace: the code points with the White_Space property
IsWhitespace(c) ==
    \/ c >= 9 /\ c <= 13
    \/ c \in {32, 133, 160, 5760, 8232, 8233, 8239, 8287, 12288}
    \/ c >= 8192 /\ c <= 8202

\* s.char_indices(): the byte index of the k-th character (k from 1)
CharIndex(s, k) == ByteLen(SubSeq(s, 1, k - 1))

\* step 1, the scan over char_indices from character k on; st is the
\* record of the loop's variables [words, in_word, start]
RECURSIVE ScanFrom(_, _, _)
ScanFrom(s, k, st) ==
    IF k > Len(s) THEN st
    ELSE LET i == CharIndex(s, k) IN
         IF IsWhitespace(s[k])
         THEN IF st.in_word
              THEN ScanFrom(s, k + 1,
                       [words |-> Append(st.words, <<st.start, i>>),
                        in_word |-> FALSE, start |-> st.start])
              ELSE ScanFrom(s, k + 1, st)
         ELSE IF ~st.in_word
              THEN ScanFrom(s, k + 1,
                       [words |-> st.words, in_word |-> TRUE, start |-> i])
              ELSE ScanFrom(s, k + 1, st)

\* mutant: the word still open at the end of the text is not pushed
FindWords_dropOpenWord(s) ==
    ScanFrom(s, 1, [words |-> <<>>, in_word |-> FALSE, start |-> 0]).words

\* step 1 with the push of the word that is open when the text ends
FindWords(s) ==
    LET st == ScanFrom(s, 1, [words |-> <<>>, in_word |-> FALSE, start |-> 0])
    IN IF st.in_word
       THEN Append(st.words, <<st.start, ByteLen(s)>>)
       ELSE st.words

\* step 2: is_space[i] = true at the byte index i of every whitespace
\* character (element b + 1 of the sequence is is_space[b])
SpaceMap(s) ==
    [b1 \in 1..ByteLen(s) |->
        \E k \in 1..Len(s) : CharIndex(s, k) = b1 - 1 /\ IsWhitespace(s[k])]

\* mutant: no whitespace before the group is taken in
AbsorbBefore_none(map, idx) == idx

\* while start_idx > 0 && is_space[start_idx - 1] { start_idx -= 1 }
RECURSIVE AbsorbBefore(_, _)
AbsorbBefore(map, idx) ==
    IF idx > 0 /\ map[idx] THEN AbsorbBefore(map, idx - 1) ELSE idx

\* mutant: the end of a group is rounded up instead of down
GroupWords_roundUp(i, total, parts) ==
    <<(i * total) \div parts,
      (((i + 1) * total + parts - 1) \div parts) - 1>>

\* start_word and end_word of group i
GroupWords(i, total, parts) ==
    <<(i * total) \div parts, (((i + 1) * total) \div parts) - 1>>

\* &s[a..b] panics unless a <= b and both lie on character boundaries
SliceOk(s, a, b) == a <= b /\ a \in Boundaries(s) /\ b \in Boundaries(s)

InitWords ==
    /\ pc = "scan"
    /\ text \in TextsUpTo(WordAlphabet, MaxWordLen) \cup {FiveWords}
    /\ n \in 1..MaxN
    /\ words = <<>>
    /\ is_space = <<>>
    /\ out = <<>>
    /\ gi = 0
    /\ IdleChunk /\ IdleTag /\ IdleFn

\* step 1 and the early return for a text without words
WordScan ==
    /\ pc = "scan"
    /\ words' = FindWords(text)
    /\ pc' = IF Len(words') = 0 THEN "done" ELSE "map"
    /\ UNCHANGED <<text, n, is_space, out, gi>>
    /\ UNCHANGED chunkVars /\ UNCHANGED tagVars /\ UNCHANGED fnVars

\* step 2
WordMap ==
    /\ pc = "map"
    /\ is_space' = SpaceMap(text)
    /\ gi' = 0
    /\ pc' = "groups"
    /\ UNCHANGED <<text, n, words, out>>
    /\ UNCHANGED chunkVars /\ UNCHANGED tagVars /\ UNCHANGED fnVars

\* one iteration of step 3, for i = gi
WordGroup ==
    /\ pc = "groups"
    /\ LET total     == Len(words)
           parts     == Min(n, total)
           g         == GroupWords(gi, total, parts)
           start_idx == AbsorbBefore(is_space, words[g[1] + 1][1])
           end_idx   == words[g[2] + 1][2]
       IN IF SliceOk(text, start_idx, end_idx)
          THEN /\ out' = Append(out, <<start_idx, end_idx>>)
               /\ gi' = gi + 1
               /\ pc' = IF gi + 1 < parts THEN "groups" ELSE "done"
          ELSE /\ pc' = "panic"
               /\ UNCHANGED <<out, gi>>
    /\ UNCHANGED <<text, n, words, is_space>>
    /\ UNCHANGED chunkVars /\ UNCHANGED tagVars /\ UNCHANGED fnVars

NextWords == WordScan \/ WordMap \/ WordGroup

SpecWords == InitWords /\ [][NextWords]_vars

----------------------------------------------------------------------------
(* Properties of split_upto_n_by_word *)

\* the characters that begin / end a maximal run of non-whitespace
RunStarts(s) ==
    {k \in 1..Len(s) :
        ~IsWhitespace(s[k]) /\ (k = 1 \/ IsWhitespace(s[k - 1]))}
RunEnds(s) ==
    {k \in 1..Len(s) :
        ~IsWhitespace(s[k]) /\ (k = Len(s) \/ IsWhitespace(s[k + 1]))}

\* R: the number of maximal runs of non-whitespace characters
RunCount(s) == Cardinality(RunStarts(s))

SetMin(S) == CHOOSE x \in S : \A y \in S : x <= y
SetMax(S) == CHOOSE x \in S : \A y \in S : y <= x

\* the bytes of the returned slices, in order
RECURSIVE SliceBytes(_, _)
SliceBytes(bs, ranges) ==
    IF ranges = <<>> THEN <<>>
    ELSE <<Slice(bs, Head(ranges)[1], Head(ranges)[2])>>
         \o SliceBytes(bs, Tail(ranges))

\* C5: the call returns min(n, R) slices; none for a text without words.
C5_SliceCountIsMinNRuns ==
    pc = "done" => Len(out) = Min(n, RunCount(text))

\* a finished call that had more words than slices asked for
C5_Witness ==
    /\ pc = "done"
    /\ n >= 2
    /\ RunCount(text) > n
    /\ Len(out) = n

LeadStart(s) ==
    LET first == SetMin(RunStarts(s)) IN
    SetMin({k \in 1..first :
               \A j \in k..(first - 1) :
                   IsWhitespace(s[j]) /\ LenUtf8(s[j]) = 1})

C7_ConcatIsPrefixToLastWord ==
    (pc = "done" /\ RunCount(text) >= 1) =>
        Flatten(SliceBytes(AsBytes(text), out)) =
            AsBytes(SubSeq(text, 1, SetMax(RunEnds(text))))

----------------------------------------------------------------------------
(* remove_tags (lib.rs) *)

\* longest text of the tag stripper, in tokens (a token is one character
\* or one whole marker)
MaxToks == 5
\* iterations a loop that does not advance is followed for
MaxSpin == 3

\* "<t>" / "</t>", and the one-character two-byte markers U+00AB / U+00BB
MarkerPairs ==
    { <<  <<60, 116, 62>>, <<60, 47, 116, 62>>  >>,
      <<  <<171>>, <<187>>  >> }

\* the pieces texts are built from: a one-byte and a two-byte character,
\* the two markers, and a piece that begins like a marker ('<' for the first
\* pair; U+00AC, which shares its first byte with both markers, for the
\* second)
Tokens(pair) ==
    {<<97>>, <<233>>, pair[1], pair[2]}
        \cup (IF pair[1] = <<171>> THEN {<<172>>} ELSE {<<60>>})

\* the examples of the documentation: "a<t>b<t>c</t>d</t>e" and
\* "before <t>unfinished"
NestedExample ==
    <<97, 60, 116, 62, 98, 60, 116, 62, 99, 60, 47, 116, 62, 100,
      60, 47, 116, 62, 101>>
UnfinishedExample ==
    <<98, 101, 102, 111, 114, 101, 32, 60, 116, 62,
      117, 110, 102, 105, 110, 105, 115, 104, 101, 100>>

\* text_bytes[i..].starts_with(tag)
StartsWithAt(bs, i, tag) ==
    /\ i + Len(tag) <= Len(bs)
    /\ Slice(bs, i, i + Len(tag)) = tag

\* mutant: an open marker inside a region is not counted
DepthAfterOpen_flat(d) == d

\* depth += 1, on an open marker inside a region
DepthAfterOpen(d) == d + 1

\* mutant: any close marker ends the region
DepthAfterClose_first(d) == 0

\* depth -= 1, on a close marker inside a region
DepthAfterClose(d) == d - 1

\* text[i..].chars().next().unwrap(): defined when i is a character
\* boundary inside the text
CharAtOk(bs, i) == i < Len(bs) /\ WholeCharAtHead(Slice(bs, i, Len(bs)))

InitTags ==
    /\ pc = "outer"
    /\ \/ \E pair \in MarkerPairs :
            /\ open_tag = AsBytes(pair[1])
            /\ close_tag = AsBytes(pair[2])
            /\ \E toks \in TextsUpTo(Tokens(pair), MaxToks) :
                   text = Flatten(toks)
       \/ /\ text \in {NestedExample, UnfinishedExample}
          /\ open_tag = <<60, 116, 62>>
          /\ close_tag = <<60, 47, 116, 62>>
    /\ ti = 0
    /\ depth = 0
    /\ tout = <<>>
    /\ region = -1
    /\ pass = 1
    /\ first_out = <<>>
    /\ IdleChunk /\ IdleWord /\ IdleFn

\* the outer while ends: return out
TagOuterExit ==
    /\ pc = "outer"
    /\ ~(ti < Len(AsBytes(text)))
    /\ pc' = "done"
    /\ UNCHANGED <<text, open_tag, close_tag, ti, depth, tout, region>>
    /\ UNCHANGED <<pass, first_out>>
    /\ UNCHANGED chunkVars /\ UNCHANGED wordVars /\ UNCHANGED fnVars

\* an opening tag at i: skip it and enter the removal region with depth 1
TagOpenFound ==
    /\ pc = "outer"
    /\ ti < Len(AsBytes(text))
    /\ StartsWithAt(AsBytes(text), ti, open_tag)
    /\ ti' = ti + Len(open_tag)
    /\ depth' = 1
    /\ region' = ti
    /\ pc' = "inner"
    /\ UNCHANGED <<text, open_tag, close_tag, tout>>
    /\ UNCHANGED <<pass, first_out>>
    /\ UNCHANGED chunkVars /\ UNCHANGED wordVars /\ UNCHANGED fnVars

\* otherwise copy one UTF-8 character
TagCopyChar ==
    /\ pc = "outer"
    /\ ti < Len(AsBytes(text))
    /\ ~StartsWithAt(AsBytes(text), ti, open_tag)
    /\ LET bs == AsBytes(text) IN
       IF CharAtOk(bs, ti)
       THEN /\ tout' = tout \o Slice(bs, ti, ti + LeadWidth(bs[ti + 1]))
            /\ ti' = ti + LeadWidth(bs[ti + 1])
            /\ pc' = "outer"
       ELSE /\ pc' = "panic"
            /\ UNCHANGED <<tout, ti>>
    /\ UNCHANGED <<text, open_tag, close_tag, depth, region>>
    /\ UNCHANGED <<pass, first_out>>
    /\ UNCHANGED chunkVars /\ UNCHANGED wordVars /\ UNCHANGED fnVars

\* inside the region: a further opening tag (the model follows depth up to
\* MaxToks + MaxSpin, which only a loop that does not advance reaches)
TagInnerOpen ==
    /\ pc = "inner"
    /\ ti < Len(AsBytes(text)) /\ depth > 0
    /\ depth < MaxToks + MaxSpin
    /\ StartsWithAt(AsBytes(text), ti, open_tag)
    /\ depth' = DepthAfterOpen(depth)
    /\ ti' = ti + Len(open_tag)
    /\ UNCHANGED <<pc, text, open_tag, close_tag, tout, region>>
    /\ UNCHANGED <<pass, first_out>>
    /\ UNCHANGED chunkVars /\ UNCHANGED wordVars /\ UNCHANGED fnVars

\* inside the region: a closing tag
TagInnerClose ==
    /\ pc = "inner"
    /\ ti < Len(AsBytes(text)) /\ depth > 0
    /\ ~StartsWithAt(AsBytes(text), ti, open_tag)
    /\ StartsWithAt(AsBytes(text), ti, close_tag)
    /\ depth' = DepthAfterClose(depth)
    /\ ti' = ti + Len(close_tag)
    /\ UNCHANGED <<pc, text, open_tag, close_tag, tout, region>>
    /\ UNCHANGED <<pass, first_out>>
    /\ UNCHANGED chunkVars /\ UNCHANGED wordVars /\ UNCHANGED fnVars

\* inside the region: neither tag, advance by one byte
TagInnerSkip ==
    /\ pc = "inner"
    /\ ti < Len(AsBytes(text)) /\ depth > 0
    /\ ~StartsWithAt(AsBytes(text), ti, open_tag)
    /\ ~StartsWithAt(AsBytes(text), ti, close_tag)
    /\ ti' = ti + 1
    /\ UNCHANGED <<pc, text, open_tag, close_tag, depth, tout, region>>
    /\ UNCHANGED <<pass, first_out>>
    /\ UNCHANGED chunkVars /\ UNCHANGED wordVars /\ UNCHANGED fnVars

\* the inner while ends: break when depth > 0, else back to the outer loop
TagInnerExit ==
    /\ pc = "inner"
    /\ ~(ti < Len(AsBytes(text)) /\ depth > 0)
    /\ IF depth > 0
       THEN pc' = "done" /\ UNCHANGED region
       ELSE pc' = "outer" /\ region' = -1
    /\ UNCHANGED <<text, open_tag, close_tag, ti, depth, tout>>
    /\ UNCHANGED <<pass, first_out>>
    /\ UNCHANGED chunkVars /\ UNCHANGED wordVars /\ UNCHANGED fnVars

NextTags ==
    \/ TagOuterExit \/ TagOpenFound \/ TagCopyChar
    \/ TagInnerOpen \/ TagInnerClose \/ TagInnerSkip \/ TagInnerExit

SpecTags == InitTags /\ [][NextTags]_vars

----------------------------------------------------------------------------
(* Properties of remove_tags *)

\* the byte indices at which a marker occurs in bs
Occurrences(bs, tag) ==
    {p \in 0..(Len(bs) - Len(tag)) :
        \A k \in 1..Len(tag) : bs[p + k] = tag[k]}

\* open markers minus close markers that start in [p, e)
Balance(bs, op, cl, p, e) ==
    Cardinality({o \in Occurrences(bs, op) : p <= o /\ o < e})
        - Cardinality({c \in Occurrences(bs, cl) : p <= c /\ c < e})

\* the ends of the close markers that bring the region opened at p back to
\* balance
MatchEnds(bs, op, cl, p) ==
    {e \in (p + Len(op) + Len(cl))..Len(bs) :
        /\ (e - Len(cl)) \in Occurrences(bs, cl)
        /\ Balance(bs, op, cl, p, e) = 0}

\* the text with every nested region removed, from byte index from on: a
\* region runs from the first open marker to the first close marker that
\* balances it; an open marker nothing balances ends the output
RECURSIVE NestedStrip(_, _, _, _)
NestedStrip(bs, op, cl, from) ==
    LET opens == {o \in Occurrences(bs, op) : o >= from} IN
    IF opens = {} THEN Slice(bs, from, Len(bs))
    ELSE LET p    == SetMin(opens)
             ends == MatchEnds(bs, op, cl, p)
         IN IF ends = {} THEN Slice(bs, from, p)
            ELSE Slice(bs, from, p) \o NestedStrip(bs, op, cl, SetMin(ends))

\* the index of the open marker that starts a region nothing balances, -1
\* when every region is closed
RECURSIVE Unmatched(_, _, _, _)
Unmatched(bs, op, cl, from) ==
    LET opens == {o \in Occurrences(bs, op) : o >= from} IN
    IF opens = {} THEN -1
    ELSE LET p    == SetMin(opens)
             ends == MatchEnds(bs, op, cl, p)
         IN IF ends = {} THEN p ELSE Unmatched(bs, op, cl, SetMin(ends))

\* the text with every region removed when a region ends at the first close
\* marker after its open marker, nested open markers not interpreted
RECURSIVE FirstCloseStrip(_, _, _, _)
FirstCloseStrip(bs, op, cl, from) ==
    LET opens == {o \in Occurrences(bs, op) : o >= from} IN
    IF opens = {} THEN Slice(bs, from, Len(bs))
    ELSE LET p      == SetMin(opens)
             closes == {c \in Occurrences(bs, cl) : c >= p + Len(op)}
         IN IF closes = {} THEN Slice(bs, from, p)
            ELSE Slice(bs, from, p)
                 \o FirstCloseStrip(bs, op, cl, SetMin(closes) + Len(cl))

C9_RegionEndsAtFirstClose ==
    pc = "done" =>
        tout = FirstCloseStrip(AsBytes(text), open_tag, close_tag, 0)

----------------------------------------------------------------------------
(* remove_tags applied to its own output *)

\* longest text of the repeated call, in tokens
MaxJoinToks == 4

\* the pieces of the texts of the repeated call, with "<t>" / "</t>" as
\* markers: 'a', the two markers, and the two halves "<" and "t>" of an open
\* marker
JoinTokens ==
    {<<97>>, <<60, 116, 62>>, <<60, 47, 116, 62>>, <<60>>, <<116, 62>>}

\* the scalar value of the well-formed character at the head of bs
DecodeChar(bs) ==
    CASE LeadWidth(bs[1]) = 1 -> bs[1]
      [] LeadWidth(bs[1]) = 2 -> (bs[1] - 192) * 64 + (bs[2] - 128)
      [] LeadWidth(bs[1]) = 3 ->
            (bs[1] - 224) * 4096 + (bs[2] - 128) * 64 + (bs[3] - 128)
      [] OTHER ->
            (bs[1] - 240) * 262144 + (bs[2] - 128) * 4096
                + (bs[3] - 128) * 64 + (bs[4] - 128)

\* the characters of a String, from its bytes
RECURSIVE Chars(_)
Chars(bs) ==
    IF bs = <<>> THEN <<>>
    ELSE <<DecodeChar(bs)>> \o Chars(SubSeq(bs, LeadWidth(bs[1]) + 1, Len(bs)))

InitTagsJoin ==
    /\ pc = "outer"
    /\ open_tag = <<60, 116, 62>>
    /\ close_tag = <<60, 47, 116, 62>>
    /\ \E toks \in TextsUpTo(JoinTokens, MaxJoinToks) : text = Flatten(toks)
    /\ ti = 0
    /\ depth = 0
    /\ tout = <<>>
    /\ region = -1
    /\ pass = 1
    /\ first_out = <<>>
    /\ IdleChunk /\ IdleWord /\ IdleFn

\* remove_tags(&first, open_tag, close_tag): the returned String is the text
\* of a second call with the same markers
TagRerun ==
    /\ pc = "done"
    /\ pass = 1
    /\ text' = Chars(tout)
    /\ first_out' = tout
    /\ pass' = 2
    /\ ti' = 0
    /\ depth' = 0
    /\ tout' = <<>>
    /\ region' = -1
    /\ pc' = "outer"
    /\ UNCHANGED <<open_tag, close_tag>>
    /\ UNCHANGED chunkVars /\ UNCHANGED wordVars /\ UNCHANGED fnVars

NextTagsTwice == NextTags \/ TagRerun

SpecTagsTwice == InitTagsJoin /\ [][NextTagsTwice]_vars

\* C11: the output of remove_tags holds no open marker, and a second call
\* on that output returns it unchanged.
C11_RemoveTagsIdempotent ==
    /\ (pc = "done" /\ pass = 1) => Occurrences(tout, open_tag) = {}
    /\ (pc = "done" /\ pass = 2) => tout = first_out

----------------------------------------------------------------------------
(* count_paragraphs (lib2.rs) *)

\* longest text of the paragraph counter, in characters
MaxParLen == 5

\* 'A', U+00E9, '\r', '\n'
ParAlphabet == {65, 233, 13, 10}

\* "A\r\nB\nC\rD", the mixed-newline text of the tests
MixedExample == <<65, 13, 10, 66, 10, 67, 13, 68>>

\* is pat a prefix of s
StartsWith(s, pat) == Len(pat) <= Len(s) /\ SubSeq(s, 1, Len(pat)) = pat

\* str::replace(pat, to) for a non-empty pat: every non-overlapping match,
\* from the left
RECURSIVE Replace(_, _, _)
Replace(s, pat, to) ==
    IF s = <<>> THEN <<>>
    ELSE IF StartsWith(s, pat)
         THEN to \o Replace(SubSeq(s, Len(pat) + 1, Len(s)), pat, to)
         ELSE <<Head(s)>> \o Replace(Tail(s), pat, to)

\* str::matches(c).count()
RECURSIVE CountChar(_, _)
CountChar(s, c) ==
    IF s = <<>> THEN 0
    ELSE (IF Head(s) = c THEN 1 ELSE 0) + CountChar(Tail(s), c)

\* mutant: the bare '\r' is replaced before the "\r\n" pair
NormalizeNewlines_crFirst(s) ==
    Replace(Replace(s, <<13>>, <<10>>), <<13, 10>>, <<10>>)

\* text.replace("\r\n", "\n").replace('\r', "\n")
NormalizeNewlines(s) ==
    Replace(Replace(s, <<13, 10>>, <<10>>), <<13>>, <<10>>)

\* the value returned for a normalized, non-empty text
ParagraphsOf(normalized) ==
    LET newline_count == CountChar(normalized, 10) IN
    IF newline_count = 0 THEN 1
    ELSE IF StartsWith(normalized, <<10>>) THEN newline_count
    ELSE newline_count + 1

InitParagraphs ==
    /\ pc = "start"
    /\ text \in TextsUpTo(ParAlphabet, MaxParLen) \cup {MixedExample}
    /\ aux = <<>>
    /\ work = <<>>
    /\ res = <<>>
    /\ IdleChunk /\ IdleWord /\ IdleTag

\* the empty text returns 0; otherwise the newline types are normalized
ParNormalize ==
    /\ pc = "start"
    /\ IF text = <<>>
       THEN /\ res' = 0
            /\ pc' = "done"
            /\ UNCHANGED work
       ELSE /\ work' = NormalizeNewlines(text)
            /\ pc' = "count"
            /\ UNCHANGED res
    /\ UNCHANGED <<text, aux>>
    /\ UNCHANGED chunkVars /\ UNCHANGED wordVars /\ UNCHANGED tagVars

\* the newlines are counted and the count returned
ParCount ==
    /\ pc = "count"
    /\ res' = ParagraphsOf(work)
    /\ pc' = "done"
    /\ UNCHANGED <<text, aux, work>>
    /\ UNCHANGED chunkVars /\ UNCHANGED wordVars /\ UNCHANGED tagVars

NextParagraphs == ParNormalize \/ ParCount

SpecParagraphs == InitParagraphs /\ [][NextParagraphs]_vars

\* the characters of s at which a line break begins: a '\r' (alone or the
\* first half of "\r\n"), or a '\n' that does not follow a '\r'
LineBreaks(s) ==
    {k \in 1..Len(s) :
        \/ s[k] = 13
        \/ s[k] = 10 /\ (k = 1 \/ s[k - 1] # 13)}

\* C12: count_paragraphs("") is 0; for a non-empty text it is the number B
\* of line breaks when the text begins with a line break and B + 1 otherwise
\* (so 1 without any break, and 4 for "A\r\nB\nC\rD").
C12_ParagraphsAreBreaksPlusOne ==
    pc = "done" =>
        /\ res = (IF text = <<>> THEN 0
                  ELSE IF 1 \in LineBreaks(text)
                       THEN Cardinality(LineBreaks(text))
                       ELSE Cardinality(LineBreaks(text)) + 1)
        /\ text = MixedExample => res = 4

\* a counted text that does not begin with a break and holds the three
\* newline styles, two of them consecutive
C12_Witness ==
    /\ pc = "done"
    /\ text = <<65, 13, 10, 10, 13>>
    /\ res = 4

----------------------------------------------------------------------------
(* word_count and is_cjk (lib2.rs) *)

\* longest text of the word counter, in characters
MaxWcLen == 4

\* 'a', ',', '-', '\'', ' ', U+4F60 (CJK), U+1F642 (emoji)
WcAlphabet == {97, 44, 45, 39, 32, 20320, 128578}

\* U+4F60 U+597D U+4E16 U+754C, "don't stop", and ",<U+4F60><U+4F60> -a"
CjkExample == <<20320, 22909, 19990, 30028>>
ContractionExample == <<100, 111, 110, 39, 116, 32, 115, 116, 111, 112>>
TrimExample == <<44, 20320, 20320, 32, 45, 97>>

\* is_cjk: the CJK ideograph blocks
IsCjk(c) ==
    \/ c >= 19968 /\ c <= 40959
    \/ c >= 13312 /\ c <= 19903
    \/ c >= 131072 /\ c <= 173791
    \/ c >= 173824 /\ c <= 177983
    \/ c >= 177984 /\ c <= 178207
    \/ c >= 178208 /\ c <= 183983
    \/ c >= 63744 /\ c <= 64255
    \/ c >= 194560 /\ c <= 195103

\* char::is_ascii_punctuation
IsAsciiPunctuation(c) ==
    \/ c >= 33 /\ c <= 47
    \/ c >= 58 /\ c <= 64
    \/ c >= 91 /\ c <= 96
    \/ c >= 123 /\ c <= 126

\* mutant: apostrophe and hyphen are trimmed like other punctuation
IsTrimmed_all(c) == IsAsciiPunctuation(c)

\* the closure given to trim_matches
IsTrimmed(c) == IsAsciiPunctuation(c) /\ c # 39 /\ c # 45

\* str::split_whitespace: the non-empty pieces between whitespace; cur is
\* the piece being read
RECURSIVE SplitWhitespace(_, _)
SplitWhitespace(s, cur) ==
    IF s = <<>> THEN (IF cur = <<>> THEN <<>> ELSE <<cur>>)
    ELSE IF IsWhitespace(Head(s))
         THEN (IF cur = <<>> THEN <<>> ELSE <<cur>>)
              \o SplitWhitespace(Tail(s), <<>>)
         ELSE SplitWhitespace(Tail(s), Append(cur, Head(s)))

\* str::trim_matches: matching characters are taken off the front, then off
\* the back
RECURSIVE TrimStart(_)
TrimStart(t) ==
    IF t # <<>> /\ IsTrimmed(Head(t)) THEN TrimStart(Tail(t)) ELSE t

RECURSIVE TrimEnd(_)
TrimEnd(t) ==
    IF t # <<>> /\ IsTrimmed(t[Len(t)])
    THEN TrimEnd(SubSeq(t, 1, Len(t) - 1)) ELSE t

TrimMatches(t) == TrimEnd(TrimStart(t))

\* what one token adds to count
TokenWords(token) ==
    LET trimmed == TrimMatches(token) IN
    IF trimmed = <<>> THEN 0
    ELSE IF \A k \in 1..Len(trimmed) : IsCjk(trimmed[k]) THEN Len(trimmed)
    ELSE 1

InitWordCount ==
    /\ pc = "split"
    /\ text \in TextsUpTo(WcAlphabet, MaxWcLen)
                  \cup {CjkExample, ContractionExample, TrimExample}
    /\ aux = <<>>
    /\ work = <<>>
    /\ res = <<>>
    /\ IdleChunk /\ IdleWord /\ IdleTag

\* let mut count = 0; the iterator text.split_whitespace()
WcSplit ==
    /\ pc = "split"
    /\ work' = SplitWhitespace(text, <<>>)
    /\ res' = 0
    /\ pc' = "tokens"
    /\ UNCHANGED <<text, aux>>
    /\ UNCHANGED chunkVars /\ UNCHANGED wordVars /\ UNCHANGED tagVars

\* one iteration of the for loop, or its end and the return of count
WcToken ==
    /\ pc = "tokens"
    /\ IF work = <<>>
       THEN /\ pc' = "done"
            /\ UNCHANGED <<work, res>>
       ELSE /\ res' = res + TokenWords(Head(work))
            /\ work' = Tail(work)
            /\ pc' = "tokens"
    /\ UNCHANGED <<text, aux>>
    /\ UNCHANGED chunkVars /\ UNCHANGED wordVars /\ UNCHANGED tagVars

NextWordCount == WcSplit \/ WcToken

SpecWordCount == InitWordCount /\ [][NextWordCount]_vars

\* what the run of non-whitespace that starts at character a counts for:
\* nothing when all its characters are trimmed punctuation; else, between
\* its first and last character that is not, the number of characters when
\* all are CJK ideographs and 1 otherwise
RunWords(s, a) ==
    LET b    == SetMin({k \in RunEnds(s) : k >= a})
        kept == {k \in a..b :
                    ~(IsAsciiPunctuation(s[k]) /\ s[k] \notin {39, 45})}
    IN IF kept = {} THEN 0
       ELSE IF \A k \in SetMin(kept)..SetMax(kept) : IsCjk(s[k])
            THEN SetMax(kept) - SetMin(kept) + 1
            ELSE 1

RECURSIVE SumRuns(_, _)
SumRuns(s, starts) ==
    IF starts = {} THEN 0
    ELSE LET a == SetMin(starts) IN RunWords(s, a) + SumRuns(s, starts \ {a})

----------------------------------------------------------------------------
(* get_first_of_split (lib.rs) *)

\* longest string of get_first_of_split, in characters
MaxSplitLen == 4

\* 'a', '=', ',', ' ', U+00E9
SplitAlphabet == {97, 61, 44, 32, 233}

\* "=", ", " and U+00E9: one byte, two characters, one two-byte character
Separators == {<<61>>, <<44, 32>>, <<233>>}

\* s.find(separator): the byte index of the first match, -1 for None
Find(bs, sep) ==
    LET found == {p \in 0..(Len(bs) - Len(sep)) : StartsWithAt(bs, p, sep)}
    IN IF found = {} THEN -1 ELSE SetMin(found)

\* is i a character boundary of the String with bytes bs
IsCharBoundary(bs, i) ==
    i = 0 \/ i = Len(bs) \/ (i < Len(bs) /\ ~IsContinuation(bs[i + 1]))

InitSplit ==
    /\ pc = "find"
    /\ text \in TextsUpTo(SplitAlphabet, MaxSplitLen)
    /\ aux \in Separators
    /\ work = <<>>
    /\ res = <<>>
    /\ IdleChunk /\ IdleWord /\ IdleTag

\* if let Some(position) = s.find(separator)
SplitFind ==
    /\ pc = "find"
    /\ work' = Find(AsBytes(text), AsBytes(aux))
    /\ pc' = "build"
    /\ UNCHANGED <<text, aux, res>>
    /\ UNCHANGED chunkVars /\ UNCHANGED wordVars /\ UNCHANGED tagVars

\* (s[..position], s[position + 1..]) or (s, ""); a slice that does not
\* start on a character boundary panics
SplitBuild ==
    /\ pc = "build"
    /\ LET bs == AsBytes(text) IN
       IF work >= 0
       THEN IF work + 1 <= Len(bs) /\ IsCharBoundary(bs, work)
               /\ IsCharBoundary(bs, work + 1)
            THEN /\ res' = <<Slice(bs, 0, work), Slice(bs, work + 1, Len(bs))>>
                 /\ pc' = "done"
            ELSE /\ pc' = "panic"
                 /\ UNCHANGED res
       ELSE /\ res' = <<bs, <<>> >>
            /\ pc' = "done"
    /\ UNCHANGED <<text, aux, work>>
    /\ UNCHANGED chunkVars /\ UNCHANGED wordVars /\ UNCHANGED tagVars

NextSplit == SplitFind \/ SplitBuild

SpecSplit == InitSplit /\ [][NextSplit]_vars

\* C14: when the separator occurs in s the call returns (before, after)
\* with before + separator + after = s, before ending where the first
\* occurrence of the separator begins; otherwise it returns (s, "").
C14_SplitsAroundSeparator ==
    LET bs  == AsBytes(text)
        sep == AsBytes(aux)
    IN pc \in {"done", "panic"} =>
        /\ pc = "done"
        /\ IF Occurrences(bs, sep) # {}
           THEN /\ res[1] \o sep \o res[2] = bs
                /\ Len(res[1]) = SetMin(Occurrences(bs, sep))
           ELSE res = <<bs, <<>> >>

----------------------------------------------------------------------------
(* remove_char (lib.rs) *)

\* longest input of remove_char, in characters
MaxRcLen == 4

\* 'a', '!', U+00E9
RcAlphabet == {97, 33, 233}

\* Iterator::take(k) and Iterator::skip(k) over input.chars()
Take(s, k) == SubSeq(s, 1, Min(k, Len(s)))
Skip(s, k) == SubSeq(s, k + 1, Len(s))

InitRemoveChar ==
    /\ pc = "match"
    /\ text \in TextsUpTo(RcAlphabet, MaxRcLen)
    /\ aux \in {"Begin", "End"} \X RcAlphabet
    /\ work = <<>>
    /\ res = <<>>
    /\ IdleChunk /\ IdleWord /\ IdleTag

\* RemoveLocationEnum::Begin
RemoveBegin ==
    /\ pc = "match"
    /\ aux[1] = "Begin"
    /\ res' = IF text # <<>> /\ text[1] = aux[2]
              THEN Skip(text, 1)
              ELSE text
    /\ pc' = "done"
    /\ UNCHANGED <<text, aux, work>>
    /\ UNCHANGED chunkVars /\ UNCHANGED wordVars /\ UNCHANGED tagVars

\* RemoveLocationEnum::End: input.len() is the length in bytes
RemoveEnd ==
    /\ pc = "match"
    /\ aux[1] = "End"
    /\ res' = IF text # <<>> /\ text[Len(text)] = aux[2]
              THEN Take(text, Len(AsBytes(text)) - 1)
              ELSE text
    /\ pc' = "done"
    /\ UNCHANGED <<text, aux, work>>
    /\ UNCHANGED chunkVars /\ UNCHANGED wordVars /\ UNCHANGED tagVars

NextRemoveChar == RemoveBegin \/ RemoveEnd

SpecRemoveChar == InitRemoveChar /\ [][NextRemoveChar]_vars

\* C15: with End the input loses its last character when that is the
\* target, with Begin its first character when that is the target, whatever
\* the widths of its characters; otherwise the input is returned unchanged.
C15_RemovesMatchingEndChar ==
    pc = "done" =>
        res = (CASE aux[1] = "End" /\ text # <<>> /\ text[Len(text)] = aux[2]
                      -> SubSeq(text, 1, Len(text) - 1)
                 [] aux[1] = "Begin" /\ text # <<>> /\ text[1] = aux[2]
                      -> Tail(text)
                 [] OTHER -> text)

----------------------------------------------------------------------------
(* The partition of the words by split_upto_n_by_word *)

\* the byte range of run j (from 0) of the text, from its characters
RunRange(s, j) ==
    LET a == CHOOSE k \in RunStarts(s) :
                 Cardinality({m \in RunStarts(s) : m < k}) = j
        b == SetMin({k \in RunEnds(s) : k >= a})
    IN <<CharIndex(s, a), CharIndex(s, b + 1)>>

\* run j lies wholly inside / shares a byte with the byte range r
RunInside(s, j, r) ==
    r[1] <= RunRange(s, j)[1] /\ RunRange(s, j)[2] <= r[2]
RunTouches(s, j, r) ==
    RunRange(s, j)[1] < r[2] /\ r[1] < RunRange(s, j)[2]

\* C16: with R >= 1 runs and parts = min(n, R), slice i holds exactly the
\* runs i*R/parts .. (i+1)*R/parts - 1, whole; a run touches no other slice;
\* the slices follow one another in the text; and the numbers of runs of two
\* slices differ by at most one.
C16_BalancedPartitionOfRuns ==
    (pc = "done" /\ RunCount(text) >= 1) =>
        LET R     == RunCount(text)
            parts == Min(n, R)
            runsIn(i) == {j \in 0..(R - 1) : RunInside(text, j, out[i + 1])}
        IN /\ Len(out) = parts
           /\ \A i \in 0..(parts - 1) :
                 /\ runsIn(i) = ((i * R) \div parts)
                                   ..((((i + 1) * R) \div parts) - 1)
                 /\ \A j \in 0..(R - 1) :
                       RunTouches(text, j, out[i + 1]) => j \in runsIn(i)
           /\ \A j \in 0..(R - 1) :
                 Cardinality({i \in 0..(parts - 1) : j \in runsIn(i)}) = 1
           /\ \A i \in 1..(parts - 1) : out[i][2] <= out[i + 1][1]
           /\ \A i1, i2 \in 0..(parts - 1) :
                 Cardinality(runsIn(i1)) - Cardinality(runsIn(i2)) <= 1

\* five words split in three slices of one, two and two words
C16_Witness ==
    /\ pc = "done"
    /\ text = FiveWords
    /\ n = 3
    /\ out = << <<0, 1>>, <<1, 5>>, <<5, 9>> >>

----------------------------------------------------------------------------
(* remove_tags with an empty open marker *)

\* longest text tried with the empty open marker, in characters
MaxEmptyLen == 2

\* the open marker is "", the close marker "</t>"
InitTagsEmpty ==
    /\ pc = "outer"
    /\ open_tag = <<>>
    /\ close_tag = <<60, 47, 116, 62>>
    /\ \E s \in TextsUpTo({97, 233}, MaxEmptyLen) : text = s
    /\ ti = 0
    /\ depth = 0
    /\ tout = <<>>
    /\ region = -1
    /\ pass = 1
    /\ first_out = <<>>
    /\ IdleChunk /\ IdleWord /\ IdleFn

InitTagsAny == InitTags \/ InitTagsEmpty

SpecTagsAny == InitTagsAny /\ [][NextTags]_vars

\* C17: with an empty open marker and a non-empty text the call does not
\* loop: every step of its loops moves i forward or leaves the loop, and the
\* call returns with everything removed.
C17_EmptyOpenMarkerTerminates ==
    [][(open_tag = <<>> /\ text # <<>> /\ pc \in {"outer", "inner"}) =>
          /\ ti' > ti \/ pc' # pc
          /\ pc' = "done" => tout' = <<>>]_vars

====
